---- MODULE Spec2Model ----
(***************************************************************************)
(* Model of backup.py: an incremental, content-addressed backup/restore   *)
(* tool.  A backup run walks the source tree, stores each file under the   *)
(* hash of its content in <dest>/blobs, writes a manifest and packs the    *)
(* directory into <dest>/<timestamp>.tar.gz.  Files older than the cutoff  *)
(* are looked up in the chain of earlier archives and recorded as          *)
(* "lb:<cutoff>".  A restore run unpacks one archive and resolves the      *)
(* "lb:" entries through the sibling archives.                             *)
(*                                                                         *)
(* One program run executes at a time; the environment (clock, edits of    *)
(* source files, removal of archives) interleaves with the steps of a run. *)
(***************************************************************************)
EXTENDS Integers, Sequences, FiniteSets, TLC

\* ---------------------------------------------------------------- bounds
MaxClock == 2        \* the clock stops ticking here
MaxEdits == 1        \* writes to source files by the environment
MaxRemovals == 1     \* archives deleted by the operator
MaxFaults == 1       \* I/O errors (a read, a copy or a tar file that fails)
MaxRuns == 4         \* program invocations (backup or restore)
RecursionLimit == 2  \* depth at which the interpreter raises RecursionError

\* ------------------------------------------------------------- constants
None == -1           \* Python's None for last_backup (lastModified=None)
Sentinel == 1        \* the extra byte files_identical_py feeds to both hashes
HashStates == 4      \* size of the stub hash's running state
DotChar == 46        \* code point of "."

\* ------------------------------------------------------------------ paths
\* Files under the source root.  "a.tx" contains "a.t" as a substring and
\* "R" has no dot in its name.
Paths == {"a.t", "a.tx", "R"}

PathChars(p) ==
    CASE p = "a.t"  -> <<97, 46, 116>>
      [] p = "a.tx" -> <<97, 46, 116, 120>>
      [] p = "R"    -> <<82>>

\* Python's `s in t` on strings.
IsSubstr(s, t) ==
    \E i \in 0..(Len(t) - Len(s)) : SubSeq(t, i + 1, i + Len(s)) = s

\* Python's str ordering (code point, lexicographic), used by sorted().
SeqLess(s, t) ==
    \E i \in 1..(Len(t)) :
        /\ \A j \in 1..(i - 1) : j <= Len(s) /\ s[j] = t[j]
        /\ \/ i = Len(s) + 1
           \/ i <= Len(s) /\ s[i] < t[i]

PathLess(p, q) == SeqLess(PathChars(p), PathChars(q))

\* source.glob("**/*.*"): the names that contain a dot.
glob(ps) == {p \in ps : \E i \in 1..Len(PathChars(p)) : PathChars(p)[i] = DotChar}

\* exclude = make_predicate(excludes) with excludes = [] as set by __main__.
exclude(p) == FALSE

\* --------------------------------------------------------------- contents
\* File contents are byte strings.  <<2>> and <<1, 1>> drive the stub hash
\* into the same state; <<2>> and <<3>> share a digest from different states.
Contents == {<<0>>, <<2>>, <<1, 1>>, <<3>>}

\* What a copy that fails part-way can leave under the target name.
Prefixes(c) == {SubSeq(c, 1, n) : n \in 0..(Len(c) - 1)}

\* ------------------------------------------------------------------- hash
\* Stub for hashlib.sha256 with the same shape: a running state updated
\* chunk by chunk, and a lossy finalisation.
RECURSIVE HashUpdate(_, _)
HashUpdate(h, bytes) ==
    IF bytes = <<>> THEN h
    ELSE HashUpdate((h + Head(bytes)) % HashStates, Tail(bytes))

hexdigest(h) == h \div 2

file_hash_py(c) == HashUpdate(0, c)

file_hash(c) == hexdigest(file_hash_py(c))

files_identical_py(c1, c2) ==
    hexdigest(HashUpdate(file_hash_py(c1), <<Sentinel>>))
        = hexdigest(HashUpdate(file_hash_py(c2), <<Sentinel>>))

files_identical(c1, c2) == files_identical_py(c1, c2)

\* ------------------------------------------------------------------- maps
EmptyMap == <<>>

Put(m, k, v) == [x \in (DOMAIN m) \cup {k} |-> IF x = k THEN v ELSE m[x]]

Drop(m, ks) == [x \in (DOMAIN m) \ ks |-> m[x]]

\* ------------------------------------------------------- manifest lines
\* f"{hsh}\t{fn}" with hsh a hex digest or "lb:<id>", and "lastBackup:<id>:".
DirectRef(d) == [tag |-> "h", val |-> d]
ChainedRef(id) == [tag |-> "lb", val |-> id]
EntryLine(ref, p) == [kind |-> "entry", ref |-> ref, path |-> p]
ControlLine(id) == [kind |-> "control", ref |-> [tag |-> "lastBackup", val |-> id], path |-> ""]

RECURSIVE SortedPaths(_)
SortedPaths(ps) ==
    IF ps = {} THEN <<>>
    ELSE LET m == CHOOSE p \in ps : \A q \in ps \ {p} : PathLess(p, q)
         IN <<m>> \o SortedPaths(ps \ {m})

\* The lines backup() appends to the manifest file.
ManifestLines(manifest, last_backup) ==
    LET ps == SortedPaths(DOMAIN manifest)
    IN [i \in 1..Len(ps) |-> EntryLine(manifest[ps[i]], ps[i])]
           \o <<ControlLine(last_backup)>>

\* `str(fn) in line`: neither a reference nor a control line holds a ".",
\* so a globbed name can only occur in the path part of an entry line.
LineContains(line, fn) ==
    line.kind = "entry" /\ IsSubstr(PathChars(fn), PathChars(line.path))

NotFound == [tag |-> "None", val |-> None]

search_manifest_file(lines, fn) ==
    IF \E i \in 1..Len(lines) : LineContains(lines[i], fn)
    THEN LET i == CHOOSE k \in 1..Len(lines) :
                     /\ LineContains(lines[k], fn)
                     /\ \A j \in 1..(k - 1) : ~LineContains(lines[j], fn)
         IN lines[i].ref
    ELSE NotFound

\* ------------------------------------------------------------------ state
VARIABLES
    clock,            \* wall clock in whole seconds (datetime.now())
    fs,               \* source tree: path -> [content, mtime]
    edits,            \* number of environment writes so far
    removals,         \* number of archives removed so far
    faults,           \* number of I/O errors so far
    runs,             \* number of program invocations so far
    archives,         \* <dest>/<id>.tar.gz: id -> [manifest, blobs]
    sblobs,           \* <dest>/blobs/<xx>/<digest>: digest -> content
    smanifest,        \* <dest>/blobs/manifest: lines (<<>> when absent)
    cache,            \* <dest>/manifests/<id>: id -> lines
    pc,               \* position of the running invocation, "idle" between runs
    mode,             \* "-b" or "-r": the mode of the latest invocation
    err,              \* the uncaught exception that ended the latest run
    last_backup,      \* backup(): the cutoff argument
    purge,            \* backup(): the purge argument
    todo,             \* backup(): files the glob has still to yield
    manifest,         \* backup(): filename --> hash
    collision_check,  \* backup(): hash --> filename
    cur,              \* backup(): fn while its blob is being copied
    hsh,              \* backup(): hsh while its blob is being copied
    backup_archive,   \* backup(): the name backup_compress returned
    rarchive,         \* restore(): the archive argument
    rlines,           \* restore(): manifest lines still to process
    rblobs,           \* restore(): <out>/blobs/<archive>/<xx>/<digest>
    out,              \* restore(): files written below the destination
    rskipped,         \* restore(): entries reported "Couldn't find it recursive"
    seen,             \* history: content each path had when this run read it
    hashed,           \* history: files file_hash() read in this run
    unreadable,       \* history: files whose file_hash() raised in this run
    copied,           \* history: blobs copy() wrote in this run
    copyFailed,       \* history: files whose copy() raised in this run
    orig              \* history: id -> seen of the run that wrote the archive

envVars == <<clock, fs, edits, removals, faults>>
destVars == <<archives, sblobs, smanifest, cache>>
backupVars == <<last_backup, purge, todo, manifest, collision_check, cur, hsh, backup_archive>>
restoreVars == <<rarchive, rlines, rblobs, out, rskipped>>
histVars == <<seen, hashed, unreadable, copied, copyFailed, orig>>
vars == <<envVars, destVars, backupVars, restoreVars, histVars, runs, pc, mode, err>>

\* The file the environment edits; the other files keep their content.
EditPaths == {"a.t"}

Init ==
    /\ clock = 1
    /\ fs \in [Paths -> [content : Contents, mtime : {0}]]
    /\ fs["R"].content = <<0>>
    /\ fs["a.tx"].content = <<2>>
    /\ edits = 0
    /\ removals = 0
    /\ faults = 0
    /\ runs = 0
    /\ archives = EmptyMap
    /\ sblobs = EmptyMap
    /\ smanifest = <<>>
    /\ cache = EmptyMap
    /\ pc = "idle"
    /\ mode = ""
    /\ err = "none"
    /\ last_backup = None
    /\ purge = FALSE
    /\ todo = {}
    /\ manifest = EmptyMap
    /\ collision_check = EmptyMap
    /\ cur = ""
    /\ hsh = None
    /\ backup_archive = None
    /\ rarchive = None
    /\ rlines = <<>>
    /\ rblobs = EmptyMap
    /\ out = EmptyMap
    /\ rskipped = {}
    /\ seen = EmptyMap
    /\ hashed = {}
    /\ unreadable = {}
    /\ copied = {}
    /\ copyFailed = {}
    /\ orig = EmptyMap

\* ------------------------------------------------------------ environment
\* Only the environment's writes and backup_compress read the clock, so it
\* is moved between two files of the backup loop.
Tick ==
    /\ pc = "loop"
    /\ clock < MaxClock
    /\ clock' = clock + 1
    /\ UNCHANGED <<fs, edits, removals, faults, destVars, backupVars, restoreVars,
                   histVars, runs, pc, mode, err>>

\* Only the backup loop reads the source tree.
EnvWrite(p, c) ==
    /\ pc \in {"loop", "copy"}
    /\ edits < MaxEdits
    /\ c # fs[p].content
    /\ fs' = [fs EXCEPT ![p] = [content |-> c, mtime |-> clock]]
    /\ edits' = edits + 1
    /\ UNCHANGED <<clock, removals, faults, destVars, backupVars, restoreVars,
                   histVars, runs, pc, mode, err>>

EnvRemove(id) ==
    /\ pc = "idle"
    /\ removals < MaxRemovals
    /\ id \in DOMAIN archives
    /\ archives' = Drop(archives, {id})
    /\ removals' = removals + 1
    /\ UNCHANGED <<clock, fs, edits, faults, sblobs, smanifest, cache,
                   backupVars, restoreVars, histVars, runs, pc, mode, err>>

\* ----------------------------------------------------------- chain walk
\* read_compressed_manifest: a cached copy is returned as a list; otherwise
\* the lines are a map() iterator that writelines() has already consumed
\* when it is returned.
read_compressed_manifest(id, c) ==
    IF id \in DOMAIN c
    THEN [lines |-> c[id], cache |-> c]
    ELSE [lines |-> <<>>, cache |-> Put(c, id, archives[id].manifest)]

RECURSIVE recursive_search_for_file(_, _, _, _)
recursive_search_for_file(fn, lb, c, depth) ==
    IF depth >= RecursionLimit
    THEN [res |-> "RecursionError", cache |-> c]
    ELSE IF lb \notin DOMAIN archives
    THEN [res |-> "False", cache |-> c]
    ELSE LET r == read_compressed_manifest(lb, c)
             search_res == search_manifest_file(r.lines, fn)
         IN IF search_res = NotFound
            THEN [res |-> "False", cache |-> r.cache]
            ELSE IF search_res.tag = "h"
            THEN [res |-> "True", cache |-> r.cache]
            ELSE recursive_search_for_file(fn, search_res.val, r.cache, depth + 1)

RECURSIVE recursive_restore(_, _, _, _, _)
recursive_restore(fn, lb, c, blobs, depth) ==
    IF depth >= RecursionLimit
    THEN [res |-> "RecursionError", hsh |-> None, cache |-> c, blobs |-> blobs]
    ELSE IF lb \notin DOMAIN archives
    THEN [res |-> "None", hsh |-> None, cache |-> c, blobs |-> blobs]
    ELSE LET r == read_compressed_manifest(lb, c)
             search_res == search_manifest_file(r.lines, fn)
         IN IF search_res = NotFound
            THEN [res |-> "TypeError", hsh |-> None, cache |-> r.cache, blobs |-> blobs]
            ELSE IF search_res.tag = "h"
            THEN IF search_res.val \in DOMAIN archives[lb].blobs
                 THEN [res |-> "hash", hsh |-> search_res.val, cache |-> r.cache,
                       blobs |-> Put(blobs, search_res.val,
                                     archives[lb].blobs[search_res.val])]
                 ELSE [res |-> "KeyError", hsh |-> None, cache |-> r.cache,
                       blobs |-> blobs]
            ELSE recursive_restore(fn, search_res.val, r.cache, blobs, depth + 1)

\* ----------------------------------------------------------------- backup
\* The locals of backup() and of restore() as a new invocation finds them.
FreshBackup ==
    /\ manifest' = EmptyMap
    /\ collision_check' = EmptyMap
    /\ cur' = ""
    /\ hsh' = None
    /\ backup_archive' = None
    /\ seen' = EmptyMap
    /\ hashed' = {}
    /\ unreadable' = {}
    /\ copied' = {}
    /\ copyFailed' = {}

FreshRestore ==
    /\ out' = EmptyMap
    /\ rskipped' = {}

NoRestore ==
    /\ rarchive' = None
    /\ rlines' = <<>>
    /\ rblobs' = EmptyMap

\* __main__ with mode "-b": lastModified is None unless a fifth argument is
\* given.  The glob is taken over the tree as it is when the run starts.
\* Nothing reads the purge argument before line 123; it is drawn there.
BackupStart(lb) ==
    /\ pc = "idle"
    /\ runs < MaxRuns
    /\ runs' = runs + 1
    /\ pc' = "loop"
    /\ mode' = "-b"
    /\ err' = "none"
    /\ last_backup' = lb
    /\ purge' = FALSE
    /\ todo' = {p \in glob(Paths) : ~exclude(p)}
    /\ FreshBackup
    /\ FreshRestore
    /\ NoRestore
    /\ UNCHANGED <<envVars, destVars, orig>>

\* An uncaught exception ends the invocation; what is on disk stays.
Raise(e) ==
    /\ pc' = "idle"
    /\ err' = e

\* lines 79-81: the staleness test and the chain search it triggers.
IsOld(fn) == fs[fn].mtime < last_backup

Search(fn) == recursive_search_for_file(fn, last_backup, cache, 0)

SearchRes(fn) == IF IsOld(fn) THEN Search(fn).res ELSE "False"

CacheAfterSearch(fn) == IF IsOld(fn) THEN Search(fn).cache ELSE cache

\* The loop body can run for fn: a file is pending and int(last_backup) works.
Pending(fn) ==
    /\ pc = "loop"
    /\ fn \in todo
    /\ last_backup # None

\* line 80 with last_backup = None: int(None) raises TypeError.
BackupNoCutoff(fn) ==
    /\ pc = "loop"
    /\ fn \in todo
    /\ last_backup = None
    /\ Raise("TypeError")
    /\ UNCHANGED <<envVars, destVars, backupVars, restoreVars, histVars, runs, mode>>

\* lines 80-86: the file is older than the cutoff and the chain has it.
BackupSkip(fn) ==
    /\ Pending(fn)
    /\ SearchRes(fn) = "True"
    /\ manifest' = Put(manifest, fn, ChainedRef(last_backup))
    /\ seen' = Put(seen, fn, fs[fn].content)
    /\ cache' = CacheAfterSearch(fn)
    /\ todo' = todo \ {fn}
    /\ UNCHANGED <<envVars, archives, sblobs, smanifest, last_backup, purge,
                   collision_check, cur, hsh, backup_archive, restoreVars,
                   hashed, unreadable, copied, copyFailed, orig, runs, pc,
                   mode, err>>

\* line 247 recursing without end: the interpreter raises RecursionError.
BackupRecursionError(fn) ==
    /\ Pending(fn)
    /\ SearchRes(fn) = "RecursionError"
    /\ cache' = CacheAfterSearch(fn)
    /\ Raise("RecursionError")
    /\ UNCHANGED <<envVars, archives, sblobs, smanifest, backupVars,
                   restoreVars, histVars, runs, mode>>

\* lines 88-92: file_hash raises, the file is skipped.
BackupUnreadable(fn) ==
    /\ Pending(fn)
    /\ SearchRes(fn) = "False"
    /\ faults < MaxFaults
    /\ faults' = faults + 1
    /\ cache' = CacheAfterSearch(fn)
    /\ todo' = todo \ {fn}
    /\ unreadable' = unreadable \cup {fn}
    /\ UNCHANGED <<clock, fs, edits, removals, archives, sblobs, smanifest, last_backup, purge,
                   manifest, collision_check, cur, hsh, backup_archive,
                   restoreVars, seen, hashed, copied, copyFailed, orig, runs,
                   pc, mode, err>>

\* lines 94-95: the digest was seen in this run and the two files compare unequal.
Collides(fn) ==
    LET h == file_hash(fs[fn].content)
    IN /\ h \in DOMAIN collision_check
       /\ ~files_identical(fs[fn].content, fs[collision_check[h]].content)

\* line 96.
BackupCollision(fn) ==
    /\ Pending(fn)
    /\ SearchRes(fn) = "False"
    /\ Collides(fn)
    /\ cache' = CacheAfterSearch(fn)
    /\ hashed' = hashed \cup {fn}
    /\ seen' = Put(seen, fn, fs[fn].content)
    /\ Raise("Exception")
    /\ UNCHANGED <<envVars, archives, sblobs, smanifest, backupVars,
                   restoreVars, unreadable, copied, copyFailed, orig, runs,
                   mode>>

\* lines 110-112.
Record(fn, h) ==
    /\ manifest' = Put(manifest, fn, DirectRef(h))
    /\ collision_check' = Put(collision_check, h, fn)
    /\ todo' = todo \ {fn}

\* lines 88-99: hash the file; when its blob exists the entry is recorded at
\* once, otherwise the copy follows.
BackupHash(fn) ==
    /\ Pending(fn)
    /\ SearchRes(fn) = "False"
    /\ ~Collides(fn)
    /\ cache' = CacheAfterSearch(fn)
    /\ hashed' = hashed \cup {fn}
    /\ seen' = Put(seen, fn, fs[fn].content)
    /\ LET h == file_hash(fs[fn].content)
       IN IF h \in DOMAIN sblobs
          THEN /\ Record(fn, h)
               /\ UNCHANGED <<pc, cur, hsh>>
          ELSE /\ pc' = "copy"
               /\ cur' = fn
               /\ hsh' = h
               /\ UNCHANGED <<manifest, collision_check, todo>>
    /\ UNCHANGED <<envVars, archives, sblobs, smanifest, last_backup, purge,
                   backup_archive, restoreVars, unreadable, copied, copyFailed,
                   orig, runs, mode, err>>

\* A copy that lands outside the blob's shard directory.
copy_elsewhere(content, blobs, h) == blobs

\* shutil.copy(src, blob_path): the blob gets what the file holds now.
copy(content, blobs, h) == Put(blobs, h, content)

\* lines 100-104.
BackupCopy ==
    /\ pc = "copy"
    /\ sblobs' = copy(fs[cur].content, sblobs, hsh)
    /\ copied' = copied \cup {hsh}
    /\ Record(cur, hsh)
    /\ pc' = "loop"
    /\ cur' = ""
    /\ hsh' = None
    /\ UNCHANGED <<envVars, archives, smanifest, cache, last_backup, purge,
                   backup_archive, restoreVars, seen, hashed, unreadable,
                   copyFailed, orig, runs, mode, err>>

\* lines 105-108: copy() raises, leaving nothing or the part it wrote under
\* the blob's name; the handler's print applies % to a string without
\* conversion specifiers and raises TypeError.
BackupCopyFail(partial, part) ==
    /\ pc = "copy"
    /\ faults < MaxFaults
    /\ faults' = faults + 1
    /\ part \in Prefixes(fs[cur].content)
    /\ sblobs' = IF partial THEN Put(sblobs, hsh, part) ELSE sblobs
    /\ copyFailed' = copyFailed \cup {cur}
    /\ Raise("TypeError")
    /\ UNCHANGED <<clock, fs, edits, removals, archives, smanifest, cache,
                   backupVars, restoreVars, seen, hashed, unreadable, copied,
                   orig, runs, mode>>

\* lines 114-120: the manifest file is opened for appending.
BackupWriteManifest ==
    /\ pc = "loop"
    /\ todo = {}
    /\ smanifest' = smanifest \o ManifestLines(manifest, last_backup)
    /\ pc' = "purge"
    /\ UNCHANGED <<envVars, archives, sblobs, cache, backupVars, restoreVars,
                   histVars, runs, mode, err>>

\* d.glob("*.*") over a shard directory: blobs are named by a hex digest,
\* which holds no ".".
GlobBlob(d) == FALSE

\* lines 122-128.
BackupPurge(pg) ==
    /\ pc = "purge"
    /\ purge' = pg
    /\ sblobs' = IF pg
                 THEN Drop(sblobs, {d \in DOMAIN sblobs :
                                      GlobBlob(d) /\ d \notin DOMAIN collision_check})
                 ELSE sblobs
    /\ pc' = "compress"
    /\ UNCHANGED <<envVars, archives, smanifest, cache, last_backup, todo,
                   manifest, collision_check, cur, hsh, backup_archive,
                   restoreVars, histVars, runs, mode, err>>

\* backup_compress: the name is the clock rounded to seconds; opening the
\* tar file for writing replaces an archive of that name.
backup_compress(blobs, lines) ==
    Put(archives, clock, [manifest |-> lines, blobs |-> blobs])

\* lines 130-131.
BackupCompress ==
    /\ pc = "compress"
    /\ archives' = backup_compress(sblobs, smanifest)
    /\ backup_archive' = clock
    /\ orig' = Put(orig, clock, seen)
    /\ pc' = "cleanup"
    /\ UNCHANGED <<envVars, sblobs, smanifest, cache, last_backup, purge, todo,
                   manifest, collision_check, cur, hsh, restoreVars, seen,
                   hashed, unreadable, copied, copyFailed, runs, mode, err>>

\* line 333: tarfile.open raises (no space left, no permission); the run
\* ends and <dest>/blobs stays as it is, manifest included.
BackupCompressFail ==
    /\ pc = "compress"
    /\ faults < MaxFaults
    /\ faults' = faults + 1
    /\ Raise("OSError")
    /\ UNCHANGED <<clock, fs, edits, removals, destVars, backupVars,
                   restoreVars, histVars, runs, mode>>

\* `if manifests_path.exists:` tests the bound method, which is always
\* true; rmtree raises FileNotFoundError when the directory is missing.
RemoveManifests ==
    /\ cache' = EmptyMap
    /\ err' = IF cache = EmptyMap THEN "FileNotFoundError" ELSE "none"

\* lines 133-139.
BackupCleanup ==
    /\ pc = "cleanup"
    /\ sblobs' = EmptyMap
    /\ smanifest' = <<>>
    /\ RemoveManifests
    /\ pc' = "idle"
    /\ UNCHANGED <<envVars, archives, backupVars, restoreVars, histVars,
                   runs, mode>>

\* ---------------------------------------------------------------- restore
\* lines 145-162: unpack the archive, read its manifest, drop the last line.
RestoreStart(a) ==
    /\ pc = "idle"
    /\ runs < MaxRuns
    /\ a \in DOMAIN archives
    /\ runs' = runs + 1
    /\ pc' = "rloop"
    /\ mode' = "-r"
    /\ err' = "none"
    /\ rarchive' = a
    /\ rblobs' = archives[a].blobs
    /\ rlines' = SubSeq(archives[a].manifest, 1, Len(archives[a].manifest) - 1)
    /\ last_backup' = None
    /\ purge' = FALSE
    /\ todo' = {}
    /\ FreshBackup
    /\ FreshRestore
    /\ UNCHANGED <<envVars, destVars, orig>>

\* line 174: the chain walk for the entry at the head of the list.
Resolve == recursive_restore(Head(rlines).path, Head(rlines).ref.val, cache, rblobs, 0)

\* What processing the head line raises, "none" when it raises nothing:
\* line 165 on a line without a tab, line 189 on a missing blob, and the
\* exceptions of recursive_restore.
LineError ==
    LET line == Head(rlines)
    IN IF line.kind # "entry" THEN "ValueError"
       ELSE IF line.ref.tag = "h"
       THEN IF line.ref.val \in DOMAIN rblobs THEN "none" ELSE "FileNotFoundError"
       ELSE IF Resolve.res \in {"hash", "None"} THEN "none" ELSE Resolve.res

\* lines 181-189 for an entry that names a digest.
RestoreDirect ==
    /\ pc = "rloop"
    /\ rlines # <<>>
    /\ LineError = "none"
    /\ Head(rlines).ref.tag = "h"
    /\ out' = Put(out, Head(rlines).path, rblobs[Head(rlines).ref.val])
    /\ rlines' = Tail(rlines)
    /\ UNCHANGED <<envVars, destVars, backupVars, rarchive, rblobs, rskipped,
                   histVars, runs, pc, mode, err>>

\* lines 172-189 for an "lb:" entry whose chain yields a digest.
RestoreChained ==
    /\ pc = "rloop"
    /\ rlines # <<>>
    /\ LineError = "none"
    /\ Head(rlines).ref.tag = "lb"
    /\ Resolve.res = "hash"
    /\ cache' = Resolve.cache
    /\ rblobs' = Resolve.blobs
    /\ out' = Put(out, Head(rlines).path, Resolve.blobs[Resolve.hsh])
    /\ rlines' = Tail(rlines)
    /\ UNCHANGED <<envVars, archives, sblobs, smanifest, backupVars, rarchive,
                   rskipped, histVars, runs, pc, mode, err>>

\* lines 176-179: recursive_restore returned None.
RestoreSkip ==
    /\ pc = "rloop"
    /\ rlines # <<>>
    /\ LineError = "none"
    /\ Head(rlines).ref.tag = "lb"
    /\ Resolve.res = "None"
    /\ cache' = Resolve.cache
    /\ rskipped' = rskipped \cup {Head(rlines).path}
    /\ rlines' = Tail(rlines)
    /\ UNCHANGED <<envVars, archives, sblobs, smanifest, backupVars, rarchive,
                   rblobs, out, histVars, runs, pc, mode, err>>

\* An exception while the head line is processed ends the restore.
RestoreRaise ==
    /\ pc = "rloop"
    /\ rlines # <<>>
    /\ LineError # "none"
    /\ cache' = IF Head(rlines).kind = "entry" /\ Head(rlines).ref.tag = "lb"
                THEN Resolve.cache ELSE cache
    /\ Raise(LineError)
    /\ UNCHANGED <<envVars, archives, sblobs, smanifest, backupVars,
                   restoreVars, histVars, runs, mode>>

\* lines 191-197.
RestoreCleanup ==
    /\ pc = "rloop"
    /\ rlines = <<>>
    /\ rblobs' = EmptyMap
    /\ RemoveManifests
    /\ pc' = "idle"
    /\ UNCHANGED <<envVars, archives, sblobs, smanifest, backupVars, rarchive,
                   rlines, out, rskipped, histVars, runs, mode>>

\* ---------------------------------------------------------- specification
\* Cutoffs a backup is started with: none, 0, or the name of an archive.
Cutoffs == {None, 0} \cup DOMAIN archives

Next ==
    \/ Tick
    \/ \E p \in EditPaths, c \in Contents : EnvWrite(p, c)
    \/ \E id \in DOMAIN archives : EnvRemove(id)
    \/ \E lb \in Cutoffs : BackupStart(lb)
    \/ \E fn \in Paths : BackupNoCutoff(fn)
    \/ \E fn \in Paths : BackupSkip(fn)
    \/ \E fn \in Paths : BackupRecursionError(fn)
    \/ \E fn \in Paths : BackupUnreadable(fn)
    \/ \E fn \in Paths : BackupCollision(fn)
    \/ \E fn \in Paths : BackupHash(fn)
    \/ BackupCopy
    \/ \E partial \in BOOLEAN, part \in UNION {Prefixes(c) : c \in Contents} :
           BackupCopyFail(partial, part)
    \/ BackupWriteManifest
    \/ \E pg \in BOOLEAN : BackupPurge(pg)
    \/ BackupCompress
    \/ BackupCompressFail
    \/ BackupCleanup
    \/ \E a \in DOMAIN archives : RestoreStart(a)
    \/ RestoreDirect
    \/ RestoreChained
    \/ RestoreSkip
    \/ RestoreRaise
    \/ RestoreCleanup

Spec == Init /\ [][Next]_vars

\* ------------------------------------------------------------- properties
\* Vocabulary of the properties.
Direct(m) == {p \in DOMAIN m : m[p].tag = "h"}

InBackup == pc \in {"loop", "copy", "purge", "compress", "cleanup"}

BackupEnded == mode = "-b" /\ pc = "idle"

RestoreEnded == mode = "-r" /\ pc = "idle"

\* The archive of this run is written and the run's locals are still there.
ArchiveWritten == pc = "cleanup"

\* No two files of the tree hold different contents with one digest.
NoCollisionInTree ==
    \A p, q \in glob(Paths) :
        file_hash(fs[p].content) = file_hash(fs[q].content)
            => fs[p].content = fs[q].content

\* The run met no I/O error, no edit and no removed archive.
Undisturbed == faults = 0 /\ edits = 0 /\ removals = 0

\* C1: round trip.  When a restore of an archive has ended, every path its
\* backup run recorded has been written to the destination with the bytes the
\* path had when that run read it (tree without colliding contents, no I/O
\* error, no edit, every archive present).
RoundTrip ==
    (RestoreEnded /\ Undisturbed /\ NoCollisionInTree /\ rarchive \in DOMAIN orig)
        => \A p \in DOMAIN archives[rarchive].manifest :
               LET line == archives[rarchive].manifest[p]
               IN line.kind = "entry"
                      => /\ line.path \in DOMAIN out
                         /\ out[line.path] = orig[rarchive][line.path]

\* C2: incremental re-run.  A backup with cutoff T, T the archive of a
\* completed earlier run, on an unchanged tree records Chained(T) for every
\* path of T's manifest and no Direct entry, hashes no file and writes no blob.
IncrementalRerun ==
    (ArchiveWritten /\ Undisturbed /\ last_backup \in DOMAIN archives
        /\ last_backup # backup_archive)
        => /\ \A i \in DOMAIN archives[last_backup].manifest :
                  LET line == archives[last_backup].manifest[i]
                  IN line.kind = "entry"
                         => /\ line.path \in DOMAIN manifest
                            /\ manifest[line.path] = ChainedRef(last_backup)
           /\ Direct(manifest) = {}
           /\ hashed = {}
           /\ copied = {}

\* C3: dedup.  Within one backup run, two fully processed files that were
\* read with identical content are both recorded as Direct references to the
\* digest of that content, and the blob store holds a blob under that digest.
DedupInvariant ==
    InBackup =>
        \A p, q \in Direct(manifest) :
            seen[p] = seen[q]
                => /\ manifest[p] = DirectRef(file_hash(seen[p]))
                   /\ manifest[q] = manifest[p]
                   /\ manifest[p].val \in DOMAIN sblobs

\* Two files with identical content have both been fully processed.
DedupWitness ==
    /\ InBackup
    /\ Direct(manifest) = {"a.t", "a.tx"}
    /\ seen["a.t"] = seen["a.tx"]
    /\ copied # {}

\* C4: collision safety.  A backup run never records two files that were
\* read with different content under one digest: it aborts at the second.
CollisionSafety ==
    InBackup =>
        \A p, q \in Direct(manifest) :
            manifest[p] = manifest[q] /\ p \in hashed /\ q \in hashed
                => seen[p] = seen[q]

\* The digest the chain of exact entries for fn ends in, starting at archive
\* id: None when an archive is missing, fn has no entry, or an entry does not
\* point strictly backward.
RECURSIVE ChainDigest(_, _)
ChainDigest(fn, id) ==
    IF id \notin DOMAIN archives THEN None
    ELSE LET m == archives[id].manifest
             hits == {i \in DOMAIN m : m[i].kind = "entry" /\ m[i].path = fn}
         IN IF hits = {} THEN None
            ELSE LET ref == m[CHOOSE i \in hits : TRUE].ref
                 IN IF ref.tag = "h" THEN ref.val
                    ELSE IF ref.val < id THEN ChainDigest(fn, ref.val)
                    ELSE None

\* C5: chain resolution.  When the restore resolves a Chained entry whose
\* chain of present snapshots ends in a Direct entry, it gets that entry's
\* digest (tree without colliding contents, no I/O error, no edit, every
\* archive present).
ChainResolution ==
    (pc = "rloop" /\ rlines # <<>> /\ Head(rlines).kind = "entry"
        /\ Head(rlines).ref.tag = "lb" /\ Undisturbed /\ NoCollisionInTree
        /\ ChainDigest(Head(rlines).path, Head(rlines).ref.val) # None)
        => /\ Resolve.res = "hash"
           /\ Resolve.hsh = ChainDigest(Head(rlines).path, Head(rlines).ref.val)

\* The chain of exact entries for fn, starting at archive id, runs into a
\* missing archive.
RECURSIVE ChainBroken(_, _)
ChainBroken(fn, id) ==
    IF id \notin DOMAIN archives THEN TRUE
    ELSE LET m == archives[id].manifest
             hits == {i \in DOMAIN m : m[i].kind = "entry" /\ m[i].path = fn}
         IN IF hits = {} THEN FALSE
            ELSE LET ref == m[CHOOSE i \in hits : TRUE].ref
                 IN ref.tag = "lb" /\ ref.val < id /\ ChainBroken(fn, ref.val)

\* C6: broken chain.  Resolving a Chained entry whose chain runs into a
\* missing archive reports failure, and a restore that skipped such an entry
\* processes every other entry and ends without an exception.
BrokenChain ==
    /\ (pc = "rloop" /\ rlines # <<>> /\ Head(rlines).kind = "entry"
            /\ Head(rlines).ref.tag = "lb"
            /\ ChainBroken(Head(rlines).path, Head(rlines).ref.val))
           => Resolve.res = "None"
    /\ (RestoreEnded /\ rskipped # {}) => (rlines = <<>> /\ err = "none")

\* C7: bounded chain walk.  No chain walk, in backup or in restore, ends in
\* anything but a result: the recursion is cut by a hop limit or a cycle set
\* and never by the interpreter.
BoundedChainWalk == err # "RecursionError"

\* C8: purge safety.  After the purge step of a run with purge enabled the
\* blob store holds exactly the digests the manifest references directly.
PurgeSafety ==
    (pc \in {"compress", "cleanup"} /\ purge)
        => DOMAIN sblobs = {manifest[p].val : p \in Direct(manifest)}

\* C9: blob integrity.  Every blob in the blob store holds content whose
\* digest is its name.
BlobIntegrity == \A d \in DOMAIN sblobs : file_hash(sblobs[d]) = d

\* C10: per-file errors.  A backup run with a file that could not be read or
\* copied, and without a hash collision or a cyclic chain, leaves the file
\* out of the manifest and ends with its archive written.
PerFileErrors ==
    (BackupEnded /\ unreadable \cup copyFailed # {}
        /\ err \notin {"Exception", "RecursionError"})
        => /\ backup_archive # None
           /\ \A p \in unreadable \cup copyFailed : p \notin DOMAIN manifest

\* The chain of exact entries for fn, starting at archive id, reaches a
\* present archive whose manifest has no entry for fn.
RECURSIVE ChainExhausted(_, _)
ChainExhausted(fn, id) ==
    IF id \notin DOMAIN archives THEN FALSE
    ELSE LET m == archives[id].manifest
             hits == {i \in DOMAIN m : m[i].kind = "entry" /\ m[i].path = fn}
         IN IF hits = {} THEN TRUE
            ELSE LET ref == m[CHOOSE i \in hits : TRUE].ref
                 IN ref.tag = "lb" /\ ref.val < id /\ ChainExhausted(fn, ref.val)

\* C11: chain exhaustion.  Resolving a Chained entry whose path has no entry
\* in the manifest of a snapshot along its chain reports failure, so that the
\* restore skips the entry and goes on.
ChainExhaustion ==
    (pc = "rloop" /\ rlines # <<>> /\ Head(rlines).kind = "entry"
        /\ Head(rlines).ref.tag = "lb"
        /\ ChainExhausted(Head(rlines).path, Head(rlines).ref.val))
        => Resolve.res = "None"

\* C12: first backup.  A backup run started without a cutoff, on a tree
\* whose files can all be read and copied, ends with its archive written and
\* a Direct entry with a stored blob for every enumerated file.
FirstBackup ==
    (BackupEnded /\ last_backup = None /\ faults = 0)
        => /\ backup_archive \in DOMAIN archives
           /\ \A p \in glob(Paths) :
                  /\ p \in Direct(manifest)
                  /\ manifest[p].val \in DOMAIN archives[backup_archive].blobs

\* The contents that resolving fn through archive id yields: the blob of the
\* Direct entry the chain of exact entries ends in, if there is one.
RECURSIVE ChainContent(_, _)
ChainContent(fn, id) ==
    IF id \notin DOMAIN archives THEN {}
    ELSE LET m == archives[id].manifest
             hits == {i \in DOMAIN m : m[i].kind = "entry" /\ m[i].path = fn}
         IN IF hits = {} THEN {}
            ELSE LET ref == m[CHOOSE i \in hits : TRUE].ref
                 IN IF ref.tag = "h"
                    THEN {archives[id].blobs[d] : d \in {ref.val} \cap DOMAIN archives[id].blobs}
                    ELSE IF ref.val < id THEN ChainContent(fn, ref.val)
                    ELSE {}

\* Every archive stores, for each of its Direct entries, the content its run
\* read from that path.
ArchivesSound ==
    \A id \in DOMAIN archives :
        \A i \in DOMAIN archives[id].manifest :
            LET line == archives[id].manifest[i]
            IN (line.kind = "entry" /\ line.ref.tag = "h")
                   => /\ line.ref.val \in DOMAIN archives[id].blobs
                      /\ archives[id].blobs[line.ref.val] = orig[id][line.path]

\* C13: Chained means unchanged.  While a backup runs, every path it has
\* recorded as Chained(s) had, when it was recorded, the content that
\* resolving the path through s yields (no I/O error, every archive present
\* and holding what its run read).
ChainedMeansUnchanged ==
    (pc \in {"loop", "copy", "purge", "compress"} /\ faults = 0 /\ removals = 0
        /\ ArchivesSound)
        => \A p \in DOMAIN manifest :
               manifest[p].tag = "lb" => seen[p] \in ChainContent(p, manifest[p].val)

\* The entry lines of a manifest file, in file order.
EntryIndexes(lines) == {i \in DOMAIN lines : lines[i].kind = "entry"}

\* C14: manifest shape.  The manifest inside every archive has at most one
\* entry per path, its entries in path order, and exactly one control line,
\* which is its last line, whatever earlier runs left in <dest>/blobs.
ManifestShape ==
    \A id \in DOMAIN archives :
        LET lines == archives[id].manifest
        IN /\ Len(lines) >= 1
           /\ \A i \in DOMAIN lines : (lines[i].kind = "control") <=> (i = Len(lines))
           /\ \A i, j \in EntryIndexes(lines) :
                  i < j => PathLess(lines[i].path, lines[j].path)

\* Every Chained entry stored in an archive points strictly backward.
ChainedBackward ==
    \A id \in DOMAIN archives :
        \A i \in EntryIndexes(archives[id].manifest) :
            LET ref == archives[id].manifest[i].ref
            IN ref.tag = "lb" => ref.val < id

\* A step that leaves every archive that is still there as it was.
ArchivesKept ==
    \A id \in DOMAIN archives :
        id \in DOMAIN archives' => archives'[id] = archives[id]

\* C15: snapshots are read-only.  No step of a backup or a restore changes or
\* replaces an archive that exists, a backup finishing within the same clock
\* second included; and every Chained(id) entry of archive T has id < T.
SnapshotsReadOnly == [][ArchivesKept]_vars /\ []ChainedBackward

\* C16: cache scoping.  Between runs, and so at the start of every run, the
\* manifest cache <dest>/manifests is empty, also after a run that aborted.
CacheScoping == pc = "idle" => cache = EmptyMap

\* C17: backup finishing sequence.  A backup run that met no I/O error and
\* wrote its archive ends without an error and leaves neither <dest>/blobs nor <dest>/manifests
\* behind, also when the run made no chain lookup.
FinishingSequence ==
    (BackupEnded /\ backup_archive # None /\ faults = 0)
        => /\ err = "none"
           /\ sblobs = EmptyMap
           /\ smanifest = <<>>
           /\ cache = EmptyMap

\* The reference of the entry whose path equals fn, if there is one.
ExactLookup(lines, fn) ==
    LET hits == {i \in EntryIndexes(lines) : lines[i].path = fn}
    IN IF hits = {} THEN NotFound
       ELSE lines[CHOOSE i \in hits : \A j \in hits : i <= j].ref

\* C18: exact path lookup.  Searching the manifest of an archive for a path
\* returns the reference of the entry with that path, and not-found when no
\* entry has that path, also when another entry's path contains it.
ExactPathLookup ==
    \A id \in DOMAIN archives :
        \A fn \in Paths :
            search_manifest_file(archives[id].manifest, fn)
                = ExactLookup(archives[id].manifest, fn)

\* C19: enumeration completeness.  In a backup run that wrote its archive
\* without any I/O error, every file of the tree that the exclusion predicate
\* does not match has a manifest entry, names without a "." included.
EnumerationComplete ==
    (ArchiveWritten /\ faults = 0)
        => \A p \in Paths : ~exclude(p) => p \in DOMAIN manifest

\* C20: cache transparency.  The first read of an archive's manifest in a run
\* (cache miss) returns the archive's full list of lines, and a lookup in it
\* gives what the same lookup gives on the second read (cache hit).
CacheTransparency ==
    \A id \in DOMAIN archives :
        LET miss == read_compressed_manifest(id, EmptyMap)
            hit == read_compressed_manifest(id, miss.cache)
        IN /\ miss.lines = archives[id].manifest
           /\ \A fn \in Paths :
                  search_manifest_file(miss.lines, fn) = search_manifest_file(hit.lines, fn)

====
